---- MODULE Spec2Model ----
(***************************************************************************)
(* Model of the mass-spectrometry processing service                       *)
(* (supabase/functions/ms-processing/python_service.py).                   *)
(*                                                                         *)
(* Units.  m/z is an integer count of 1/30000 Da, so that the four-decimal *)
(* rendering of an m/z ("%.4f") never meets an exact tie.  Retention time  *)
(* is an integer count of 0.1.  A raw intensity is an integer.  A peak     *)
(* intensity is the exact rational  n/d * 1000000^e  held as [n, d, e]     *)
(* (the normalization step multiplies by 1000000).  Noise levels are       *)
(* integer counts of 1/20.  Arithmetic is exact; the rounding of the       *)
(* binary floating point of the source is not modelled.                    *)
(***************************************************************************)
EXTENDS Integers, Sequences, FiniteSets, TLC

(***************************************************************************)
(* Bounds of the model.                                                    *)
(***************************************************************************)
MaxSamples == 4
MaxCalls == 3
PGrid == 3

(***************************************************************************)
(* Program constants.                                                      *)
(***************************************************************************)
DefaultNoiseThreshold == 1000
FullMultiplier == 3
FallbackMultiplier == 2
MinSpectrumLen == 10
NoiseFloor20 == 1000
DefaultMzTolerance == 300
DefaultRtTolerance == 5
DefaultMinIntensity == 500
SnrFloor == 3
IdentifyLimit == 50
IdentifyIntensity == 10000
NormScale == 1000000
MinGroupSize == 2

\* Not-a-number, for an integer-valued quantity and for a fraction [n, d].
NaN == 0 - 1

NaNFrac == [n |-> 0, d |-> 0]

(***************************************************************************)
(* Exact arithmetic helpers.                                               *)
(***************************************************************************)
Max(a, b) == IF a >= b THEN a ELSE b

Min(a, b) == IF a <= b THEN a ELSE b

Abs(a) == IF a >= 0 THEN a ELSE -a

RECURSIVE GCD(_, _)
GCD(a, b) == IF b = 0 THEN a ELSE GCD(b, a % b)

RECURSIVE CeilShift(_, _)
CeilShift(y, k) == IF k = 0 THEN y ELSE CeilShift((y + NormScale - 1) \div NormScale, k - 1)

RECURSIVE FloorShift(_, _)
FloorShift(x, k) == IF k = 0 THEN x ELSE FloorShift(x \div NormScale, k - 1)

\* The float value n/d * 1000000^e, reduced.
Num(n, d, e) == LET g == GCD(n, d) IN
                IF n = 0 THEN [n |-> 0, d |-> 1, e |-> 0] ELSE [n |-> n \div g, d |-> d \div g, e |-> e]

FromInt(v) == Num(v, 1, 0)

\* a >= b on intensities
NumGeq(a, b) == LET x == a.n * b.d
                    y == b.n * a.d
                IN  IF a.e >= b.e THEN x >= CeilShift(y, a.e - b.e)
                                  ELSE FloorShift(x, b.e - a.e) >= y

NumEq(a, b) == NumGeq(a, b) /\ NumGeq(b, a)

NumGt(a, b) == ~NumGeq(b, a)

\* a + b, for two values of one scale e or with a zero
NumAdd(a, b) == IF a.n = 0 THEN b
                ELSE IF b.n = 0 THEN a
                ELSE Num(a.n * b.d + b.n * a.d, a.d * b.d, a.e)

\* a / k for a positive integer k
NumDivInt(a, k) == Num(a.n, a.d * k, a.e)

\* a / f * 1000000  (python_service.py line 532)
NumNormalize(a, f) == Num(a.n * f.d, a.d * f.n, (a.e - f.e) + 1)

RECURSIVE SeqSum(_)
SeqSum(s) == IF s = <<>> THEN 0 ELSE Head(s) + SeqSum(Tail(s))

RECURSIVE NumSum(_)
NumSum(s) == IF Len(s) = 1 THEN s[1] ELSE NumAdd(s[1], NumSum(Tail(s)))

Range(s) == {s[i] : i \in 1..Len(s)}

RECURSIVE Concat(_)
Concat(ss) == IF ss = <<>> THEN <<>> ELSE Head(ss) \o Concat(Tail(ss))

\* Stable ascending sorts (sorted / list.sort / np.sort of the source).
RECURSIVE InsertInt(_, _)
InsertInt(x, s) ==
    IF s = <<>> THEN <<x>>
    ELSE IF s[Len(s)] <= x THEN Append(s, x)
    ELSE Append(InsertInt(x, SubSeq(s, 1, Len(s) - 1)), s[Len(s)])

SortInts(s) == LET F[i \in 0..Len(s)] == IF i = 0 THEN <<>> ELSE InsertInt(s[i], F[i-1])
               IN F[Len(s)]

RECURSIVE InsertNum(_, _)
InsertNum(x, s) ==
    IF s = <<>> THEN <<x>>
    ELSE IF NumGeq(x, s[Len(s)]) THEN Append(s, x)
    ELSE Append(InsertNum(x, SubSeq(s, 1, Len(s) - 1)), s[Len(s)])

SortNums(s) == LET F[i \in 0..Len(s)] == IF i = 0 THEN <<>> ELSE InsertNum(s[i], F[i-1])
               IN F[Len(s)]

RECURSIVE InsertByMz(_, _)
InsertByMz(x, s) ==
    IF s = <<>> THEN <<x>>
    ELSE IF s[Len(s)].mz <= x.mz THEN Append(s, x)
    ELSE Append(InsertByMz(x, SubSeq(s, 1, Len(s) - 1)), s[Len(s)])

SortByMz(s) == LET F[i \in 0..Len(s)] == IF i = 0 THEN <<>> ELSE InsertByMz(s[i], F[i-1])
               IN F[Len(s)]

(***************************************************************************)
(* Request parameters: a record holding only the options the caller gave.  *)
(***************************************************************************)
NoParams == [k \in {} |-> 0]

ParamGet(params, key, default) == IF key \in DOMAIN params THEN params[key] ELSE default

(***************************************************************************)
(* Peak detection.                                                         *)
(***************************************************************************)
\* Twice the median of a non-empty ascending sequence (np.median).
Median2(s) == LET n == Len(s) IN
              IF n % 2 = 1 THEN 2 * s[(n + 1) \div 2] ELSE s[n \div 2] + s[n \div 2 + 1]

\* Four times the 25th percentile of a non-empty ascending sequence
\* (np.percentile, linear interpolation).
Percentile25x4(s) == LET k == (Len(s) - 1) \div 4
                         r == (Len(s) - 1) % 4
                     IN  IF r = 0 THEN 4 * s[k + 1]
                         ELSE 4 * s[k + 1] + r * (s[k + 2] - s[k + 1])

Intensities(peaks) == [i \in 1..Len(peaks) |-> peaks[i].intensity]

IsPositive(v) == v > 0

\* _estimate_noise_pyopenms: the noise level in 1/20 units.
EstimateNoisePyopenms(spectrum) ==
    IF Len(spectrum) < MinSpectrumLen THEN 2000
    ELSE LET pos == SortInts(SelectSeq(Intensities(spectrum), IsPositive))
         IN  IF pos = <<>> THEN NaN ELSE Max(Median2(pos), NoiseFloor20)

\* Mutant: the noise level is left out of the minimum intensity.
MinIntensityThresholdOnly(params, noise, multiplier) ==
    20 * ParamGet(params, "noise_threshold", DefaultNoiseThreshold)

\* max(noise_threshold, noise_level * multiplier), in 1/20 units; Python's
\* max keeps its first argument when the second is NaN.
MinIntensity20(params, noise, multiplier) ==
    LET thr == 20 * ParamGet(params, "noise_threshold", DefaultNoiseThreshold)
    IN  IF noise = NaN THEN thr ELSE Max(thr, noise * multiplier)

\* snr = intensity / max(noise_level, 1.0)
Snr(intensity, noise) == IF noise = NaN THEN NaNFrac
                         ELSE [n |-> 20 * intensity, d |-> Max(noise, 20)]

DetectedPeak(raw, spectrum_data, noise) ==
    [mz |-> raw.mz, intensity |-> FromInt(raw.intensity),
     retentionTime |-> spectrum_data.retentionTime,
     snr |-> Snr(raw.intensity, noise), noiseLevel |-> noise]

\* MSProcessor._detect_peaks_pyopenms
DetectPeaksPyopenms(spectrum_data, params) ==
    LET spectrum == SortByMz(spectrum_data.peaks)
    IN  IF Len(spectrum) > MinSpectrumLen
        THEN LET noise_level == EstimateNoisePyopenms(spectrum)
                 min_intensity == MinIntensity20(params, noise_level, FullMultiplier)
                 Keep(raw) == 20 * raw.intensity >= min_intensity
                 kept == SelectSeq(spectrum, Keep)
             IN  [i \in 1..Len(kept) |-> DetectedPeak(kept[i], spectrum_data, noise_level)]
        ELSE <<>>

\* MSProcessor._detect_peaks_fallback
DetectPeaksFallback(spectrum_data, params) ==
    LET peaks == spectrum_data.peaks
    IN  IF peaks = <<>> THEN <<>>
        ELSE LET noise_level == 5 * Percentile25x4(SortInts(Intensities(peaks)))
                 min_intensity == MinIntensity20(params, noise_level, FallbackMultiplier)
                 Keep(raw) == 20 * raw.intensity >= min_intensity
                 kept == SelectSeq(peaks, Keep)
             IN  [i \in 1..Len(kept) |-> DetectedPeak(kept[i], spectrum_data, noise_level)]

\* The per-spectrum branch of detect_peaks_advanced.
DetectSpectrum(available, spectrum_data, params) ==
    IF spectrum_data.peaks = <<>> THEN <<>>
    ELSE IF available THEN DetectPeaksPyopenms(spectrum_data, params)
    ELSE DetectPeaksFallback(spectrum_data, params)

\* MSProcessor.detect_peaks_advanced, on one sample.
DetectPeaksAdvanced(available, sample_data, params) ==
    LET spectra == IF "spectra" \in sample_data.keys THEN sample_data.spectra ELSE <<>>
        detected_peaks == Concat([i \in 1..Len(spectra) |->
                                     DetectSpectrum(available, spectra[i], params)])
    IN  [sample_data EXCEPT !.detectedPeaks = detected_peaks,
                            !.processingStatus = "peaks_detected",
                            !.keys = @ \cup {"detectedPeaks", "processingStatus"}]

(***************************************************************************)
(* Alignment.                                                              *)
(***************************************************************************)
NoFeature == <<>>

\* The m/z rendered with four decimals (f"{mz:.4f}"), as a count of 0.0001.
Fmt4(mz) == (2 * mz + 3) \div 6

\* Lines 232-238: the pooled copies of the detected peaks of the batch; a
\* copy keeps the feature id of a peak that was stamped by an earlier run.
PooledPeak(peak, sample_idx, sample) ==
    [mz |-> peak.mz, intensity |-> peak.intensity, retentionTime |-> peak.retentionTime,
     snr |-> peak.snr, noiseLevel |-> peak.noiseLevel,
     sampleIndex |-> sample_idx, sampleName |-> sample.fileName,
     featureId |-> IF "featureId" \in DOMAIN peak THEN peak.featureId ELSE NoFeature]

DetectedOf(sample) == IF "detectedPeaks" \in sample.keys THEN sample.detectedPeaks ELSE <<>>

CollectPeaks(samples) ==
    Concat([s \in 1..Len(samples) |->
              [i \in 1..Len(DetectedOf(samples[s])) |->
                  PooledPeak(DetectedOf(samples[s])[i], s - 1, samples[s])]])

SampleNames(peaks) == {peaks[i].sampleName : i \in 1..Len(peaks)}

\* The generated id f"feature_{len(peaks)}_{peaks[0]['mz']:.4f}".
FeatureId(peaks) == <<"feature", Len(peaks), Fmt4(peaks[1].mz)>>

\* MSProcessor._create_aligned_feature (mz and rt as sums over the peaks;
\* the intensity statistics are not part of the model).
CreateAlignedFeature(peaks) ==
    [id |-> FeatureId(peaks),
     mzSum |-> SeqSum([i \in 1..Len(peaks) |-> peaks[i].mz]),
     rtSum |-> SeqSum([i \in 1..Len(peaks) |-> peaks[i].retentionTime]),
     sample_count |-> Cardinality(SampleNames(peaks)),
     peaks |-> peaks]

\* Mutant: the peak is compared with the first peak of the group.
BelongsToFirstPeak(peak, current_group, mz_tol, rt_tol) ==
    /\ Abs(peak.mz - current_group[1].mz) <= mz_tol
    /\ Abs(peak.retentionTime - current_group[1].retentionTime) <= rt_tol

\* Line 298: the peak is within both tolerances of the running means of the group.
BelongsToGroup(peak, current_group, mz_tol, rt_tol) ==
    LET n == Len(current_group)
        mz_sum == SeqSum([i \in 1..n |-> current_group[i].mz])
        rt_sum == SeqSum([i \in 1..n |-> current_group[i].retentionTime])
    IN  /\ Abs(peak.mz * n - mz_sum) <= mz_tol * n
        /\ Abs(peak.retentionTime * n - rt_sum) <= rt_tol * n

\* Lines 302 and 307: the group becomes a feature.
GroupIsFeature(current_group) == Len(current_group) >= MinGroupSize

CloseGroup(groups, current_group) ==
    IF GroupIsFeature(current_group) THEN Append(groups, CreateAlignedFeature(current_group))
    ELSE groups

\* MSProcessor._align_peaks_fallback
AlignPeaksFallback(peaks, mz_tol, rt_tol) ==
    IF peaks = <<>> THEN <<>>
    ELSE LET sorted == SortByMz(peaks)
             G[i \in 1..Len(sorted)] ==
                 IF i = 1 THEN [groups |-> <<>>, current_group |-> <<sorted[1]>>]
                 ELSE LET before == G[i-1]
                      IN  IF BelongsToGroup(sorted[i], before.current_group, mz_tol, rt_tol)
                          THEN [groups |-> before.groups,
                                current_group |-> Append(before.current_group, sorted[i])]
                          ELSE [groups |-> CloseGroup(before.groups, before.current_group),
                                current_group |-> <<sorted[i]>>]
             last == G[Len(sorted)]
         IN  CloseGroup(last.groups, last.current_group)

\* MSProcessor._align_peaks_pyopenms
AlignPeaksPyopenms(peaks, mz_tol, rt_tol) == AlignPeaksFallback(peaks, mz_tol, rt_tol)

\* Mutant: the first peak of the sample in the feature is chosen.
FirstPeakIndex(feature, sample_name) ==
    LET mine == {i \in 1..Len(feature.peaks) : feature.peaks[i].sampleName = sample_name}
    IN  IF mine = {} THEN 0 ELSE CHOOSE i \in mine : \A j \in mine : i <= j

\* Line 330-332: the index in feature.peaks of the first peak of the sample
\* with the largest intensity, 0 when the sample has no peak in the feature.
BestPeakIndex(feature, sample_name) ==
    LET mine == {i \in 1..Len(feature.peaks) : feature.peaks[i].sampleName = sample_name}
    IN  IF mine = {} THEN 0
        ELSE CHOOSE i \in mine :
               \A j \in mine : /\ NumGeq(feature.peaks[i].intensity, feature.peaks[j].intensity)
                               /\ (j < i => NumGt(feature.peaks[i].intensity,
                                                  feature.peaks[j].intensity))

\* Mutant: the stamped id is built from the sample count of the feature.
StampedIdBySampleCount(feature) ==
    <<"feature", feature.sample_count, Fmt4(feature.peaks[1].mz)>>

\* Line 333: the feature id written on the chosen peak.
StampedId(feature) == feature.id

\* MSProcessor._get_aligned_peaks_for_sample
GetAlignedPeaksForSample(features, sample_name) ==
    LET hit == SelectSeq([f \in 1..Len(features) |-> f],
                         LAMBDA f : BestPeakIndex(features[f], sample_name) # 0)
    IN  [k \in 1..Len(hit) |->
           [features[hit[k]].peaks[BestPeakIndex(features[hit[k]], sample_name)]
              EXCEPT !.featureId = StampedId(features[hit[k]])]]

\* The feature list as line 333 leaves it: the chosen peaks carry the id.
StampFeatures(features, names) ==
    [f \in 1..Len(features) |->
       [features[f] EXCEPT !.peaks =
          [i \in 1..Len(features[f].peaks) |->
             IF \E nm \in names : BestPeakIndex(features[f], nm) = i
             THEN [features[f].peaks[i] EXCEPT !.featureId = StampedId(features[f])]
             ELSE features[f].peaks[i]]]]

\* MSProcessor.align_peaks_advanced: the batch and the feature list it leaves.
AlignPeaksAdvanced(available, samples, params) ==
    LET all_peaks == CollectPeaks(samples)
        mz_tolerance == ParamGet(params, "mz_tolerance", DefaultMzTolerance)
        rt_tolerance == ParamGet(params, "rt_tolerance", DefaultRtTolerance)
        aligned_features == IF available
                            THEN AlignPeaksPyopenms(all_peaks, mz_tolerance, rt_tolerance)
                            ELSE AlignPeaksFallback(all_peaks, mz_tolerance, rt_tolerance)
    IN  IF all_peaks = <<>>
        THEN [data |-> samples, features |-> <<>>, aligned |-> FALSE]
        ELSE [data |-> [s \in 1..Len(samples) |->
                          [samples[s] EXCEPT
                             !.alignedPeaks = GetAlignedPeaksForSample(aligned_features,
                                                                       samples[s].fileName),
                             !.processingStatus = "aligned",
                             !.keys = @ \cup {"alignedPeaks", "processingStatus"}]],
              features |-> StampFeatures(aligned_features,
                                         {samples[s].fileName : s \in 1..Len(samples)}),
              aligned |-> TRUE]

(***************************************************************************)
(* Statistics.  A raw p-value is NaN or a count k of 1/PGrid; an adjusted  *)
(* p-value is NaN or a fraction [n, d].                                    *)
(***************************************************************************)
AlignedOf(sample) == IF "alignedPeaks" \in sample.keys THEN sample.alignedPeaks ELSE <<>>

\* Line 348: peak.get('featureId', f"mz_{peak['mz']:.4f}")
StatFeatureId(peak) == IF peak.featureId = NoFeature THEN <<"mz", Fmt4(peak.mz)>>
                       ELSE peak.featureId

\* Lines 343-357: the feature table keyed by feature id, in insertion order.
\* An entry is [featureId, mz, rt, intensities], intensities a function
\* from the sample names that recorded one.
RECURSIVE AddPeaks(_, _, _)
AddPeaks(table, sample_name, peaks) ==
    IF peaks = <<>> THEN table
    ELSE LET peak == Head(peaks)
             fid == StatFeatureId(peak)
             at == {i \in 1..Len(table) : table[i].featureId = fid}
             fresh == [featureId |-> fid, mz |-> peak.mz, rt |-> peak.retentionTime,
                       intensities |-> (sample_name :> peak.intensity)]
             next == IF at = {} THEN Append(table, fresh)
                     ELSE LET i == CHOOSE i \in at : TRUE
                          IN  [table EXCEPT ![i].intensities =
                                 [nm \in DOMAIN @ \cup {sample_name} |->
                                    IF nm = sample_name THEN peak.intensity ELSE @[nm]]]
         IN  AddPeaks(next, sample_name, Tail(peaks))

RECURSIVE CollectFeatures(_, _)
CollectFeatures(table, samples) ==
    IF samples = <<>> THEN table
    ELSE CollectFeatures(AddPeaks(table, Head(samples).fileName, AlignedOf(Head(samples))),
                         Tail(samples))

\* Mutant: the split point rounded up.
MidPointRoundedUp(sample_names) == (Len(sample_names) + 1) \div 2

\* Lines 364-367
MidPoint(sample_names) == Len(sample_names) \div 2

Group1Names(sample_names) == SubSeq(sample_names, 1, MidPoint(sample_names))

Group2Names(sample_names) == SubSeq(sample_names, MidPoint(sample_names) + 1, Len(sample_names))

\* Lines 371-378: feature_data['intensities'].get(name, 0) for each name of the group.
GroupIntensities(feature_data, names) ==
    [i \in 1..Len(names) |->
       IF names[i] \in DOMAIN feature_data.intensities
       THEN feature_data.intensities[names[i]] ELSE FromInt(0)]

\* Mutant: one sample per group is enough.
IsTestedWithOneSample(group1_intensities, group2_intensities) ==
    Len(group1_intensities) >= 1 /\ Len(group2_intensities) >= 1

\* Line 381: the feature is tested.
IsTested(group1_intensities, group2_intensities) ==
    Len(group1_intensities) >= 2 /\ Len(group2_intensities) >= 2

IsConstant(values) == \A i, j \in 1..Len(values) : NumEq(values[i], values[j])

\* The p-values scipy's ttest_ind can return for the two groups: NaN when
\* both groups are constant with equal means (0/0), 0 when both are constant
\* with different means (t infinite), a value in (0, 1] otherwise.
TTestPValues(g1, g2) ==
    IF IsConstant(g1) /\ IsConstant(g2)
    THEN IF NumEq(g1[1], g2[1]) THEN {NaN} ELSE {0}
    ELSE 1..PGrid

DefaultPThreshold == [n |-> 1, d |-> 20]

\* p_value < p_threshold
IsSignificant(p, thr) == p # NaN /\ p * thr.d < thr.n * PGrid

FracLeq(a, b) == a.n * b.d <= b.n * a.d

FracMin(a, b) == IF FracLeq(a, b) THEN a ELSE b


\* multipletests(p_values, method='bonferroni'): min(p * m, 1) per value.
Bonferroni(p_values) ==
    [i \in 1..Len(p_values) |->
       IF p_values[i] = NaN THEN NaNFrac
       ELSE FracMin([n |-> p_values[i] * Len(p_values), d |-> PGrid], [n |-> 1, d |-> 1])]

\* multipletests(p_values, method='fdr_bh'): the values sorted ascending,
\* each times m / rank, then the running minimum from the largest rank down,
\* capped at 1.  NaN sorts last and np.minimum propagates it to every rank.
FdrBh(p_values) ==
    LET m == Len(p_values)
        sorted == SortInts(p_values)
        raw(j) == [n |-> sorted[j] * m, d |-> PGrid * j]
        acc[j \in 1..m] == IF j = m THEN raw(m) ELSE FracMin(raw(j), acc[j + 1])
        rank(i) == CHOOSE r \in 1..m : sorted[r] = p_values[i]
                                       /\ \A q \in 1..(r - 1) : sorted[q] # p_values[i]
    IN  IF \E i \in 1..m : p_values[i] = NaN THEN [i \in 1..m |-> NaNFrac]
        ELSE [i \in 1..m |-> FracMin(acc[rank(i)], [n |-> 1, d |-> 1])]

\* MSProcessor.perform_advanced_statistics; pick gives the t-test p-value of
\* each entry of the feature table.
TestedFeatures(samples) ==
    LET table == CollectFeatures(<<>>, samples)
        sample_names == [s \in 1..Len(samples) |-> samples[s].fileName]
    IN  SelectSeq(table, LAMBDA fd : IsTested(GroupIntensities(fd, Group1Names(sample_names)),
                                              GroupIntensities(fd, Group2Names(sample_names))))

PValueChoices(samples) ==
    LET tested == TestedFeatures(samples)
        sample_names == [s \in 1..Len(samples) |-> samples[s].fileName]
    IN  {pick \in [1..Len(tested) -> 0..PGrid \cup {NaN}] :
           \A i \in 1..Len(tested) :
              pick[i] \in TTestPValues(GroupIntensities(tested[i], Group1Names(sample_names)),
                                       GroupIntensities(tested[i], Group2Names(sample_names)))}

PerformAdvancedStatistics(samples, params, pick) ==
    LET tested == TestedFeatures(samples)
        sample_names == [s \in 1..Len(samples) |-> samples[s].fileName]
        p_threshold == ParamGet(params, "p_value_threshold", DefaultPThreshold)
        corrected_p_fdr == FdrBh(pick)
        corrected_p_bonf == Bonferroni(pick)
        statistical_results ==
            [i \in 1..Len(tested) |->
               [featureId |-> tested[i].featureId, mz |-> tested[i].mz, rt |-> tested[i].rt,
                group1Mean |-> NumDivInt(NumSum(GroupIntensities(tested[i],
                                                   Group1Names(sample_names))),
                                         Len(Group1Names(sample_names))),
                group2Mean |-> NumDivInt(NumSum(GroupIntensities(tested[i],
                                                   Group2Names(sample_names))),
                                         Len(Group2Names(sample_names))),
                pValue |-> pick[i], significant |-> IsSignificant(pick[i], p_threshold),
                pValueFDR |-> corrected_p_fdr[i],
                pValueBonferroni |-> corrected_p_bonf[i]]]
    IN  [data |-> [s \in 1..Len(samples) |->
                     [samples[s] EXCEPT
                        !.statisticalResults = statistical_results,
                        !.processingStatus = "statistics_completed",
                        !.keys = @ \cup {"statisticalResults", "processingStatus"}]],
         group1_names |-> Group1Names(sample_names),
         group2_names |-> Group2Names(sample_names)]

(***************************************************************************)
(* The processor and the request handler.                                  *)
(***************************************************************************)
\* MSProcessor.setup_pyopenms_algorithms: on a failure line 95 assigns the
\* attribute pyolenms_available.
SetupPyopenmsAlgorithms(self, setup_ok) ==
    IF setup_ok THEN self ELSE [self EXCEPT !.pyolenms_available = "False"]

\* MSProcessor.__init__
MSProcessorInit(imported, setup_ok) ==
    LET self == [pyopenms_available |-> imported, pyolenms_available |-> "unset"]
    IN  IF self.pyopenms_available THEN SetupPyopenmsAlgorithms(self, setup_ok) ELSE self

KnownSteps == {"peak_detection", "alignment", "statistics", "filtering",
               "normalization", "identification"}

AlgorithmUsed(available) == IF available THEN "PyOpenMS" ELSE "Enhanced JavaScript Fallback"

Ok(message, algorithm) ==
    [endpoint |-> "process", status |-> 200, detail |-> <<message>>, algorithm |-> algorithm]

\* Lines 575-577: every exception of the handler, the HTTPException of line
\* 573 included, is re-raised with status 500 and the text of the exception.
ServerError(inner_status, inner_detail) ==
    [endpoint |-> "process", status |-> 500, detail |-> <<inner_status>> \o inner_detail,
     algorithm |-> "none"]

\* Lines 492-505
FilterSample(sample, parameters) ==
    LET peaks == DetectedOf(sample)
        min_intensity == ParamGet(parameters, "min_intensity", DefaultMinIntensity)
        Keep(peak) == /\ NumGeq(peak.intensity, FromInt(min_intensity))
                      /\ peak.snr # NaNFrac
                      /\ peak.snr.n >= SnrFloor * peak.snr.d
    IN  [sample EXCEPT !.filteredPeaks = SelectSeq(peaks, Keep),
                       !.processingStatus = "filtered",
                       !.keys = @ \cup {"filteredPeaks", "processingStatus"}]

\* Lines 521-527
NormFactor(method, intensities) ==
    LET sorted == SortNums(intensities)
        n == Len(sorted)
    IN  IF method = "median"
        THEN IF n % 2 = 1 THEN sorted[(n + 1) \div 2]
             ELSE NumDivInt(NumAdd(sorted[n \div 2], sorted[n \div 2 + 1]), 2)
        ELSE IF method = "mean" THEN NumDivInt(NumSum(intensities), n)
        ELSE FromInt(1)

\* Lines 516-535: the peaks are rescaled in place, so detectedPeaks and
\* normalizedPeaks name one list.
NormalizeSample(sample, parameters) ==
    LET method == ParamGet(parameters, "method", "median")
        peaks == DetectedOf(sample)
        norm_factor == NormFactor(method, Intensities(peaks))
        scaled == IF norm_factor.n > 0
                  THEN [i \in 1..Len(peaks) |->
                          [peaks[i] EXCEPT !.intensity = NumNormalize(@, norm_factor)]]
                  ELSE peaks
    IN  IF peaks = <<>> THEN sample
        ELSE [sample EXCEPT !.detectedPeaks = scaled,
                            !.normalizedPeaks = scaled,
                            !.processingStatus = "normalized",
                            !.keys = @ \cup {"normalizedPeaks", "processingStatus"}]

\* min(peak.get('snr', 1) / 10, 1.0)
MatchScore(snr) == IF snr = NaNFrac THEN NaNFrac
                   ELSE IF snr.n >= 10 * snr.d THEN [n |-> 1, d |-> 1]
                   ELSE [n |-> snr.n, d |-> 10 * snr.d]

\* Lines 546-564
IdentifySample(sample) ==
    LET peaks == DetectedOf(sample)
        head == SubSeq(peaks, 1, Min(Len(peaks), IdentifyLimit))
        High(peak) == NumGt(peak.intensity, FromInt(IdentifyIntensity))
        hits == SelectSeq(head, High)
    IN  [sample EXCEPT !.identifiedCompounds =
                          [i \in 1..Len(hits) |->
                             [name |-> <<"Compound_mz", Fmt4(hits[i].mz)>>,
                              mass |-> hits[i].mz,
                              matchScore |-> MatchScore(hits[i].snr)]],
                       !.processingStatus = "identified",
                       !.keys = @ \cup {"identifiedCompounds", "processingStatus"}]

\* process_step: the batch it leaves, its response, and the feature list and
\* the groups of the call when the step computes them.
ProcessStep(processor, step, data, parameters, pick, features, groups) ==
    LET available == processor.pyopenms_available
    IN  CASE step = "peak_detection" ->
               [data |-> [s \in 1..Len(data) |->
                            DetectPeaksAdvanced(available, data[s], parameters)],
                response |-> Ok("Detected peaks", AlgorithmUsed(available)),
                features |-> features, groups |-> groups]
          [] step = "alignment" ->
               LET r == AlignPeaksAdvanced(available, data, parameters)
               IN  IF r.aligned
                   THEN [data |-> r.data,
                         response |-> Ok("Aligned features", AlgorithmUsed(available)),
                         features |-> r.features, groups |-> groups]
                   ELSE [data |-> r.data, response |-> Ok("No peaks to align", "none"),
                         features |-> features, groups |-> groups]
          [] step = "statistics" ->
               LET r == PerformAdvancedStatistics(data, parameters, pick)
               IN  [data |-> r.data,
                    response |-> Ok("Statistical analysis completed",
                                    "Advanced scipy-based statistics"),
                    features |-> features,
                    groups |-> [group1 |-> r.group1_names, group2 |-> r.group2_names]]
          [] step = "filtering" ->
               [data |-> [s \in 1..Len(data) |-> FilterSample(data[s], parameters)],
                response |-> Ok("Data filtering completed", "none"),
                features |-> features, groups |-> groups]
          [] step = "normalization" ->
               [data |-> [s \in 1..Len(data) |-> NormalizeSample(data[s], parameters)],
                response |-> Ok("Data normalization completed", "none"),
                features |-> features, groups |-> groups]
          [] step = "identification" ->
               [data |-> [s \in 1..Len(data) |-> IdentifySample(data[s])],
                response |-> Ok("Compound identification completed", "none"),
                features |-> features, groups |-> groups]
          [] OTHER ->
               [data |-> data,
                response |-> ServerError("400", <<"Unknown processing step", step>>),
                features |-> features, groups |-> groups]

\* health_check: the algorithm field holds the reported pyopenms_available.
HealthCheck(processor) ==
    [endpoint |-> "health", status |-> 200, detail |-> <<"healthy">>,
     algorithm |-> AlgorithmUsed(processor.pyopenms_available)]

(***************************************************************************)
(* The batches a client sends.                                             *)
(***************************************************************************)
\* 100.0 Da and 50.0 Da in m/z units.
Mz100 == 100 * 30000

BackgroundMz == 50 * 30000

BackgroundIntensity == 100

BackgroundCount == 10

Background == [i \in 1..BackgroundCount |-> [mz |-> BackgroundMz, intensity |-> BackgroundIntensity]]

\* The spectra of a sample of each kind: "double" has two signal peaks
\* 1/30000 Da apart at retention time 1.0, "late" one signal peak 200/30000
\* Da higher at retention time 9.0, "empty" a spectrum without peaks; the
\* first two carry ten background peaks; "short" has one signal peak and
\* two background peaks.
SpectraOf(kind) ==
    CASE kind = "double" ->
           << [retentionTime |-> 10,
               peaks |-> Background \o << [mz |-> Mz100, intensity |-> 12000],
                                          [mz |-> Mz100 + 1, intensity |-> 5000] >>] >>
      [] kind = "late" ->
           << [retentionTime |-> 90,
               peaks |-> << [mz |-> Mz100 + 200, intensity |-> 5000] >> \o Background] >>
      [] kind = "short" ->
           << [retentionTime |-> 10,
               peaks |-> << [mz |-> Mz100, intensity |-> 12000],
                            [mz |-> BackgroundMz, intensity |-> BackgroundIntensity],
                            [mz |-> BackgroundMz, intensity |-> BackgroundIntensity] >>] >>
      [] OTHER -> << [retentionTime |-> 10, peaks |-> <<>>] >>

\* The batches: all samples of one kind, or two kinds alternating.
BatchPatterns == {<<"double", "double">>, <<"late", "late">>, <<"empty", "empty">>,
                  <<"double", "empty">>, <<"double", "late">>, <<"short", "double">>}

KindAt(pattern, s) == pattern[2 - (s % 2)]

RawSample(name, kind) ==
    [fileName |-> name, spectra |-> SpectraOf(kind), keys |-> {"fileName", "spectra"},
     detectedPeaks |-> <<>>, alignedPeaks |-> <<>>, filteredPeaks |-> <<>>,
     normalizedPeaks |-> <<>>, identifiedCompounds |-> <<>>, statisticalResults |-> <<>>,
     processingStatus |-> "none"]

Batches == {[s \in 1..n |-> RawSample(s, KindAt(pattern, s))] :
               n \in 1..MaxSamples, pattern \in BatchPatterns}

DetectParams == {NoParams, [noise_threshold |-> 100], [noise_threshold |-> 8000]}

AlignParams == {NoParams, [mz_tolerance |-> 0], [rt_tolerance |-> 100]}

NormParams == {NoParams, [method |-> "mean"], [method |-> "sum"]}

UnknownStepNames == {"quantification"}

NoGroups == [group1 |-> <<>>, group2 |-> <<>>]

NoResponse == [endpoint |-> "none", status |-> 0, detail |-> <<>>, algorithm |-> "none"]

NoRequest == [step |-> "none", parameters |-> NoParams]

(***************************************************************************)
(* State.                                                                  *)
(***************************************************************************)
VARIABLES PYOPENMS_AVAILABLE, setup_ok, processor, data, request, response,
          aligned_features, groups, calls

vars == <<PYOPENMS_AVAILABLE, setup_ok, processor, data, request, response,
          aligned_features, groups, calls>>

Init ==
    /\ PYOPENMS_AVAILABLE \in BOOLEAN
    /\ setup_ok \in (IF PYOPENMS_AVAILABLE THEN BOOLEAN ELSE {FALSE})
    /\ processor = MSProcessorInit(PYOPENMS_AVAILABLE, setup_ok)
    /\ data \in Batches
    /\ request = NoRequest
    /\ response = NoResponse
    /\ aligned_features = <<>>
    /\ groups = NoGroups
    /\ calls = 0

\* One POST /process with the given batch, step and parameters.
Submit(batch, step, parameters, pick) ==
    LET r == ProcessStep(processor, step, batch, parameters, pick, aligned_features, groups)
    IN  /\ calls < MaxCalls
        /\ calls' = calls + 1
        /\ request' = [step |-> step, parameters |-> parameters]
        /\ data' = r.data
        /\ response' = r.response
        /\ aligned_features' = r.features
        /\ groups' = r.groups
        /\ UNCHANGED <<PYOPENMS_AVAILABLE, setup_ok, processor>>

\* The client sends back the batch the last response returned.
Call(step, parameters, pick) == Submit(data, step, parameters, pick)

PeakDetection == \E parameters \in DetectParams : Call("peak_detection", parameters, <<>>)

Alignment == \E parameters \in AlignParams : Call("alignment", parameters, <<>>)

Statistics == \E pick \in PValueChoices(data) : Call("statistics", NoParams, pick)

Filtering == Call("filtering", NoParams, <<>>)

Normalization == \E parameters \in NormParams : Call("normalization", parameters, <<>>)

Identification == Call("identification", NoParams, <<>>)

UnknownStep == \E step \in UnknownStepNames : Call(step, NoParams, <<>>)

Health ==
    /\ response' = HealthCheck(processor)
    /\ UNCHANGED <<PYOPENMS_AVAILABLE, setup_ok, processor, data, request,
                   aligned_features, groups, calls>>

Next == \/ PeakDetection
        \/ Alignment
        \/ Statistics
        \/ Filtering
        \/ Normalization
        \/ Identification
        \/ UnknownStep
        \/ Health

Spec == Init /\ [][Next]_vars

(***************************************************************************)
(* Alignment of batches whose peaks were detected by an earlier request:   *)
(* the service keeps no state, so the client sends the detected peaks.     *)
(***************************************************************************)
MaxAlignSamples == 3

Mz150 == 150 * 30000

PresetNoise == 100 * 20

\* A detected peak as the fallback detector writes it.
PresetPeak(mz, rt, intensity) ==
    DetectedPeak([mz |-> mz, intensity |-> intensity], [retentionTime |-> rt], PresetNoise)

\* The detected peaks of one sample: none; one peak at 100.005; 100.0 and
\* 150.0; one at 100.012; one at 100.0007 eluting late; a stronger 100.0013
\* listed before 100.0.
PresetPeakLists ==
    { <<>>,
      << PresetPeak(Mz100 + 150, 10, 5200) >>,
      << PresetPeak(Mz100, 10, 5000), PresetPeak(Mz150, 10, 3000) >>,
      << PresetPeak(Mz100 + 360, 10, 4000) >>,
      << PresetPeak(Mz100 + 20, 90, 5000) >>,
      << PresetPeak(Mz100 + 40, 10, 7000), PresetPeak(Mz100, 10, 5000) >> }

PresetSample(name, peaks) ==
    [RawSample(name, "empty") EXCEPT !.detectedPeaks = peaks,
                                     !.processingStatus = "peaks_detected",
                                     !.keys = @ \cup {"detectedPeaks", "processingStatus"}]

PresetBatches ==
    UNION {{[s \in 1..n |-> PresetSample(s, lists[s])] : lists \in [1..n -> PresetPeakLists]} :
              n \in 1..MaxAlignSamples}

InitAlign ==
    /\ PYOPENMS_AVAILABLE \in BOOLEAN
    /\ setup_ok = PYOPENMS_AVAILABLE
    /\ processor = MSProcessorInit(PYOPENMS_AVAILABLE, setup_ok)
    /\ data \in PresetBatches
    /\ request = NoRequest
    /\ response = NoResponse
    /\ aligned_features = <<>>
    /\ groups = NoGroups
    /\ calls = 0

\* The batch of the last response with each sample's aligned peaks put in
\* the place of its detected peaks.
Resubmitted(samples) ==
    [s \in 1..Len(samples) |-> [samples[s] EXCEPT !.detectedPeaks = AlignedOf(samples[s])]]

\* The client aligns again, with the tolerances of the last request, the
\* peaks the last alignment kept.
Realignment ==
    /\ request.step = "alignment"
    /\ \A s \in 1..Len(data) : data[s].processingStatus = "aligned"
    /\ Submit(Resubmitted(data), "alignment", request.parameters, <<>>)

NextAlign == \/ Alignment
             \/ Realignment

SpecAlign == InitAlign /\ [][NextAlign]_vars

(***************************************************************************)
(* Requests whose batch makes a whole stage raise.  Two malformed batches  *)
(* are sent: in "no_fileName" the first sample has no 'fileName' key, in   *)
(* "bad_intensity" the first detected peak of the first sample holds a     *)
(* text in place of its intensity.  The client keeps the batch it had.     *)
(***************************************************************************)
FaultsOf(step) ==
    IF step \in {"peak_detection", "alignment", "statistics"}
    THEN {"no_fileName"} ELSE {"bad_intensity"}

\* The text of the exception: str(KeyError('fileName')), and the TypeError
\* of comparing or averaging a text with numbers.
FaultMessage(fault) ==
    IF fault = "no_fileName" THEN "'fileName'" ELSE "TypeError text"

\* The stage raises on the batch with the fault: sample['fileName'] is read
\* at line 100 (peak_detection), at lines 237 and 257 once a peak is pooled
\* (alignment) and at line 346 (statistics); the intensity of a detected
\* peak is compared at line 500 (filtering), averaged at lines 523-525
\* (normalization) and compared at line 552 (identification).
StageRaises(step, fault, batch) ==
    CASE step = "peak_detection" -> fault = "no_fileName"
      [] step = "alignment" -> fault = "no_fileName" /\ CollectPeaks(batch) # <<>>
      [] step = "statistics" -> fault = "no_fileName"
      [] OTHER -> fault = "bad_intensity" /\ DetectedOf(batch[1]) # <<>>

\* Lines 575-577 on an exception that is not an HTTPException: status 500
\* and the text of the exception.
UnexpectedError(message) ==
    [endpoint |-> "process", status |-> 500, detail |-> <<message>>, algorithm |-> "none"]

\* The response to a request whose stage raised: the three stages of
\* MSProcessor wrap the exception (lines 133-135, 269-271, 452-454) and
\* process_step wraps it again; the three inline stages reach lines 575-577
\* directly.
StageFailureResponse(step, fault) ==
    CASE step = "peak_detection" ->
           ServerError("500", <<"Peak detection failed", FaultMessage(fault)>>)
      [] step = "alignment" ->
           ServerError("500", <<"Peak alignment failed", FaultMessage(fault)>>)
      [] step = "statistics" ->
           ServerError("500", <<"Statistical analysis failed", FaultMessage(fault)>>)
      [] OTHER -> UnexpectedError(FaultMessage(fault))

FaultyCall(step, fault) ==
    /\ calls < MaxCalls
    /\ StageRaises(step, fault, data)
    /\ calls' = calls + 1
    /\ request' = [step |-> step, parameters |-> NoParams, fault |-> fault]
    /\ response' = StageFailureResponse(step, fault)
    /\ UNCHANGED <<PYOPENMS_AVAILABLE, setup_ok, processor, data, aligned_features, groups>>

StageFailure == \E step \in KnownSteps : \E fault \in FaultsOf(step) : FaultyCall(step, fault)

NextFaults == \/ PeakDetection
              \/ StageFailure

SpecFaults == Init /\ [][NextFaults]_vars

(***************************************************************************)
(* Properties.                                                             *)
(***************************************************************************)
StatusTag(step) ==
    CASE step = "peak_detection" -> "peaks_detected"
      [] step = "alignment" -> "aligned"
      [] step = "statistics" -> "statistics_completed"
      [] step = "filtering" -> "filtered"
      [] step = "normalization" -> "normalized"
      [] OTHER -> "identified"

OutputField(step) ==
    CASE step = "peak_detection" -> "detectedPeaks"
      [] step = "alignment" -> "alignedPeaks"
      [] step = "statistics" -> "statisticalResults"
      [] step = "filtering" -> "filteredPeaks"
      [] step = "normalization" -> "normalizedPeaks"
      [] OTHER -> "identifiedCompounds"

\* C1: a call whose step is not one of the six known steps is answered with
\* status 400 and leaves every sample of the batch as it was.
C1_UnknownStepIsClientError ==
    [][(calls' = calls + 1 /\ request'.step \notin KnownSteps)
         => (response'.status = 400 /\ data' = data)]_vars

\* C2: every feature of the last alignment has sample_count equal to the
\* number of distinct sample names among its peaks, and at least 2.
C2_FeaturesSpanTwoSamples ==
    \A f \in 1..Len(aligned_features) :
       /\ aligned_features[f].sample_count
            = Cardinality({aligned_features[f].peaks[i].sampleName :
                             i \in 1..Len(aligned_features[f].peaks)})
       /\ aligned_features[f].sample_count >= 2

\* C3: after a call of a known step every sample carries that step's status
\* tag and that step's output field.
C3_StatusIsLastStep ==
    request.step \in KnownSteps =>
       \A s \in 1..Len(data) :
          /\ data[s].processingStatus = StatusTag(request.step)
          /\ OutputField(request.step) \in data[s].keys

\* C4: every aligned peak of a sample whose status is 'aligned' carries the
\* id of a feature of the feature list of that alignment, and that feature
\* holds the peak.
C4_AlignedPeaksReferenceFeatures ==
    \A s \in 1..Len(data) :
       data[s].processingStatus = "aligned" =>
          \A i \in 1..Len(data[s].alignedPeaks) :
             /\ data[s].alignedPeaks[i].featureId # NoFeature
             /\ \E f \in 1..Len(aligned_features) :
                   /\ aligned_features[f].id = data[s].alignedPeaks[i].featureId
                   /\ \E k \in 1..Len(aligned_features[f].peaks) :
                         aligned_features[f].peaks[k] = data[s].alignedPeaks[i]

C4_Witness ==
    \E s \in 1..Len(data) :
       /\ data[s].processingStatus = "aligned"
       /\ Len(data[s].alignedPeaks) >= 1
       /\ Len(aligned_features) >= 2

\* C5: the path a response reports (the health probe's pyopenms_available,
\* the algorithm of a step call) is the full-fidelity one exactly when the
\* dependency was imported and its initialization completed.
C5_ReportedPathMatchesInitialization ==
    response.algorithm \in {"PyOpenMS", "Enhanced JavaScript Fallback"} =>
       ((response.algorithm = "PyOpenMS") <=> (PYOPENMS_AVAILABLE /\ setup_ok))

StatResults == data[1].statisticalResults

FirstHalf == 1..(Len(data) \div 2)

SecondHalf == (Len(data) \div 2 + 1)..Len(data)

\* The aligned peaks of sample s that carry feature id fid.
PeaksOfFeature(s, fid) ==
    SelectSeq(AlignedOf(data[s]), LAMBDA peak : StatFeatureId(peak) = fid)

RecordedCount(half, fid) == Cardinality({s \in half : PeaksOfFeature(s, fid) # <<>>})

\* The intensity sample s recorded for the feature, 0 when it recorded none.
RecordedOrZero(s, fid) ==
    IF PeaksOfFeature(s, fid) = <<>> THEN FromInt(0)
    ELSE PeaksOfFeature(s, fid)[Len(PeaksOfFeature(s, fid))].intensity

HalfMean(first, last, fid) ==
    NumDivInt(NumSum([i \in 1..(last - first + 1) |-> RecordedOrZero(first + i - 1, fid)]),
              last - first + 1)

\* C6 as stated: a feature has a result only if each group has at least two
\* samples with a recorded intensity for it.
C6_ResultNeedsTwoRecordedPerGroup ==
    request.step = "statistics" =>
       \A r \in 1..Len(StatResults) :
          /\ RecordedCount(FirstHalf, StatResults[r].featureId) >= 2
          /\ RecordedCount(SecondHalf, StatResults[r].featureId) >= 2

\* C6 amended: a feature has a result only if each group has at least two
\* samples, with or without a recorded intensity; otherwise it is skipped
\* and the call still succeeds; the group means of a result count 0 for
\* each sample that recorded no intensity.
C6_ResultNeedsTwoSamplesPerGroup ==
    request.step = "statistics" =>
       /\ response.endpoint = "process" => response.status = 200
       /\ \A s \in 1..Len(data) : data[s].statisticalResults = StatResults
       /\ StatResults # <<>> => (Cardinality(FirstHalf) >= 2 /\ Cardinality(SecondHalf) >= 2)
       /\ \A r \in 1..Len(StatResults) :
             /\ StatResults[r].group1Mean
                  = HalfMean(1, Len(data) \div 2, StatResults[r].featureId)
             /\ StatResults[r].group2Mean
                  = HalfMean(Len(data) \div 2 + 1, Len(data), StatResults[r].featureId)

C6_Witness ==
    /\ request.step = "statistics"
    /\ \E r \in 1..Len(StatResults) :
          /\ RecordedCount(FirstHalf, StatResults[r].featureId) = 1
          /\ StatResults[r].group1Mean.n > 0

\* C7: statistics on the samples of an alignment, with both groups of at
\* least two samples, yields one result per aligned feature, and no two
\* features of the alignment share an id.
C7_OneResultPerFeature ==
    ( /\ request.step = "statistics"
      /\ Len(data) >= 4
      /\ aligned_features # <<>>
      /\ \A s \in 1..Len(data) :
            AlignedOf(data[s]) = GetAlignedPeaksForSample(aligned_features, data[s].fileName) )
    => /\ Len(StatResults) = Len(aligned_features)
       /\ \A f, g \in 1..Len(aligned_features) :
             f # g => aligned_features[f].id # aligned_features[g].id

\* C8: the statistics step puts the first floor(n/2) samples of the batch in
\* group 1 and the others in group 2, whatever the samples hold.
C8_GroupsSplitByPosition ==
    request.step = "statistics" =>
       /\ Len(groups.group1) = Len(data) \div 2
       /\ groups.group1 \o groups.group2 = [s \in 1..Len(data) |-> data[s].fileName]
       /\ \A s \in 1..Len(data) :
             (\E i \in 1..Len(groups.group1) : groups.group1[i] = data[s].fileName)
               # (\E i \in 1..Len(groups.group2) : groups.group2[i] = data[s].fileName)

C8_Witness ==
    /\ request.step = "statistics"
    /\ Len(data) = 3
    /\ Len(groups.group1) = 1
    /\ Len(groups.group2) = 2
    /\ \E s \in 1..Len(data) : AlignedOf(data[s]) # <<>>

FracGeq(a, b) == a # NaNFrac /\ b # NaNFrac /\ a.n * b.d >= b.n * a.d

\* C9: every statistical result has pValueBonferroni >= pValueFDR >= pValue.
C9_CorrectionIsMonotone ==
    \A s \in 1..Len(data) :
       \A r \in 1..Len(data[s].statisticalResults) :
          LET res == data[s].statisticalResults[r]
          IN  /\ res.pValue # NaN
              /\ FracGeq(res.pValueBonferroni, res.pValueFDR)
              /\ FracGeq(res.pValueFDR, [n |-> res.pValue, d |-> PGrid])

\* The minimum intensity of C10 for one spectrum, in 1/20 units.
C10Threshold ==
    IF "noise_threshold" \in DOMAIN request.parameters
    THEN request.parameters.noise_threshold ELSE 1000

C10Noise(spectrum_data) ==
    IF processor.pyopenms_available
    THEN EstimateNoisePyopenms(SortByMz(spectrum_data.peaks))
    ELSE 5 * Percentile25x4(SortInts(Intensities(spectrum_data.peaks)))

C10Bound(spectrum_data) ==
    LET n == C10Noise(spectrum_data)
        byNoise == IF processor.pyopenms_available THEN 3 * n ELSE 2 * n
    IN  IF 20 * C10Threshold >= byNoise THEN 20 * C10Threshold ELSE byNoise

C10Skipped(spectrum_data) ==
    \/ spectrum_data.peaks = <<>>
    \/ processor.pyopenms_available /\ Len(spectrum_data.peaks) <= 10

CountRaw(peaks, x) == Cardinality({i \in 1..Len(peaks) : peaks[i] = x})

CountDetected(peaks, x) ==
    Cardinality({i \in 1..Len(peaks) :
                    peaks[i].mz = x.mz /\ peaks[i].intensity = [n |-> x.intensity, d |-> 1, e |-> 0]})

\* C10: after peak detection the detected peaks of a sample are exactly the
\* raw peaks, of the spectra that are not skipped, whose intensity is at
\* least max(noise_threshold, noise_floor * multiplier).
C10_DetectedPeaksAreThoseAboveBound ==
    request.step = "peak_detection" =>
       \A s \in 1..Len(data) :
          /\ \A i \in 1..Len(data[s].detectedPeaks) :
                \E k \in 1..Len(data[s].spectra) :
                   /\ ~C10Skipped(data[s].spectra[k])
                   /\ data[s].detectedPeaks[i].retentionTime = data[s].spectra[k].retentionTime
                   /\ 20 * data[s].detectedPeaks[i].intensity.n >= C10Bound(data[s].spectra[k])
          /\ \A k \in 1..Len(data[s].spectra) :
                \A x \in Range(data[s].spectra[k].peaks) :
                   CountDetected(data[s].detectedPeaks, x)
                     = SeqSum([j \in 1..Len(data[s].spectra) |->
                                 IF /\ ~C10Skipped(data[s].spectra[j])
                                    /\ 20 * x.intensity >= C10Bound(data[s].spectra[j])
                                 THEN CountRaw(data[s].spectra[j].peaks, x) ELSE 0])

C10_Witness ==
    /\ request.step = "peak_detection"
    /\ \E s \in 1..Len(data) :
          /\ data[s].detectedPeaks # <<>>
          /\ \E x \in Range(data[s].spectra[1].peaks) :
                /\ x.intensity >= C10Threshold
                /\ 20 * x.intensity < C10Bound(data[s].spectra[1])

\* Two detected-peak lists hold the same peaks: same m/z, intensity,
\* retention time, snr and noise level, position by position.
SamePeaks(before, after) ==
    /\ Len(after) = Len(before)
    /\ \A i \in 1..Len(before) :
          /\ after[i].mz = before[i].mz
          /\ NumEq(after[i].intensity, before[i].intensity)
          /\ after[i].retentionTime = before[i].retentionTime
          /\ after[i].snr = before[i].snr
          /\ after[i].noiseLevel = before[i].noiseLevel

\* C11: a call of a step other than peak_detection leaves the m/z,
\* intensity, retention time, snr and noise level of every peak of every
\* sample's detectedPeaks as they were.
C11_DetectedPeaksAreImmutable ==
    [][(calls' = calls + 1 /\ request'.step # "peak_detection")
         => \A s \in 1..Len(data) :
               "detectedPeaks" \in data[s].keys
                  => SamePeaks(data[s].detectedPeaks, data'[s].detectedPeaks)]_vars

\* C12: a normalization call whose method is neither 'median' nor 'mean'
\* returns, for every sample with detected peaks, normalized peaks whose
\* intensities are the intensities the peaks had before the call.
C12_UnknownMethodIsNoOp ==
    [][( /\ calls' = calls + 1
         /\ request'.step = "normalization"
         /\ ParamGet(request'.parameters, "method", "median") \notin {"median", "mean"} )
         => \A s \in 1..Len(data) :
               DetectedOf(data[s]) # <<>>
                  => /\ "normalizedPeaks" \in data'[s].keys
                     /\ Len(data'[s].normalizedPeaks) = Len(DetectedOf(data[s]))
                     /\ \A i \in 1..Len(DetectedOf(data[s])) :
                           NumEq(data'[s].normalizedPeaks[i].intensity,
                                 DetectedOf(data[s])[i].intensity)]_vars

\* The last request was an alignment that pooled at least one peak.
AlignmentDone ==
    /\ request.step = "alignment"
    /\ \A s \in 1..Len(data) : data[s].processingStatus = "aligned"

\* What identifies a pooled peak: its sample and its measured values.
PeakKey(peak) == <<peak.sampleName, peak.mz, peak.retentionTime, peak.intensity>>

PeakKeys(peaks) == [i \in 1..Len(peaks) |-> PeakKey(peaks[i])]

\* The pooled peaks of the batch in ascending m/z, peaks of equal m/z in
\* pooling order.
C15Sorted == SortByMz(CollectPeaks(data))

C15MzTolerance ==
    IF "mz_tolerance" \in DOMAIN request.parameters
    THEN request.parameters.mz_tolerance ELSE DefaultMzTolerance

C15RtTolerance ==
    IF "rt_tolerance" \in DOMAIN request.parameters
    THEN request.parameters.rt_tolerance ELSE DefaultRtTolerance

\* Peak i is within both tolerances of the mean m/z and the mean retention
\* time of the peaks first..i-1 of the sorted list.
C15Joins(sorted, first, i) ==
    LET n == i - first
        mz_sum == SeqSum([k \in 1..n |-> sorted[first + k - 1].mz])
        rt_sum == SeqSum([k \in 1..n |-> sorted[first + k - 1].retentionTime])
        mz_dev == sorted[i].mz * n - mz_sum
        rt_dev == sorted[i].retentionTime * n - rt_sum
    IN  /\ mz_dev <= C15MzTolerance * n /\ 0 - mz_dev <= C15MzTolerance * n
        /\ rt_dev <= C15RtTolerance * n /\ 0 - rt_dev <= C15RtTolerance * n

\* For each peak of the sorted list, the index of the peak that seeds its
\* group in the single pass.
C15Seeds(sorted) ==
    LET Seed[i \in 1..Len(sorted)] ==
            IF i = 1 THEN 1
            ELSE LET seed == Seed[i - 1]
                 IN  IF C15Joins(sorted, seed, i) THEN seed ELSE i
    IN  [i \in 1..Len(sorted) |-> Seed[i]]

\* The seeds of the groups of two or more peaks, and the last peak of a group.
C15FeatureSeeds(seeds) ==
    {i \in DOMAIN seeds : seeds[i] = i /\ i + 1 \in DOMAIN seeds /\ seeds[i + 1] = i}

C15GroupEnd(seeds, seed) ==
    CHOOSE j \in DOMAIN seeds :
       /\ seeds[j] = seed
       /\ (j + 1 \in DOMAIN seeds => seeds[j + 1] # seed)

\* The seed of the k-th group of two or more peaks.
C15NthSeed(seeds, k) ==
    CHOOSE i \in C15FeatureSeeds(seeds) :
       Cardinality({j \in C15FeatureSeeds(seeds) : j < i}) = k - 1

\* The batch of the example: (100.0, 5000) and (150.0, 3000) in one sample,
\* (100.005, 5200) in another, equal retention times, default tolerances.
C15Example ==
    /\ AlignmentDone
    /\ request.parameters = NoParams
    /\ Len(data) = 2
    /\ PeakKeys(C15Sorted) = << <<1, Mz100, 10, FromInt(5000)>>,
                                <<2, Mz100 + 150, 10, FromInt(5200)>>,
                                <<1, Mz150, 10, FromInt(3000)>> >>

\* C15: the features of an alignment are the groups of two or more peaks of
\* the single-pass greedy grouping of the pooled peaks in ascending m/z,
\* each a contiguous run of the sorted list, in the order of the list; in
\* the example the peaks at 100.0 and 100.005 form the only feature.
C15_AlignmentIsGreedyReference ==
    AlignmentDone =>
       LET sorted == C15Sorted
           seeds == C15Seeds(sorted)
       IN  /\ \A i \in 1..(Len(sorted) - 1) : sorted[i].mz <= sorted[i + 1].mz
           /\ Len(aligned_features) = Cardinality(C15FeatureSeeds(seeds))
           /\ \A k \in 1..Len(aligned_features) :
                 PeakKeys(aligned_features[k].peaks)
                   = PeakKeys(SubSeq(sorted, C15NthSeed(seeds, k),
                                     C15GroupEnd(seeds, C15NthSeed(seeds, k))))
           /\ C15Example =>
                 /\ Len(aligned_features) = 1
                 /\ PeakKeys(aligned_features[1].peaks)
                      = << <<1, Mz100, 10, FromInt(5000)>>,
                           <<2, Mz100 + 150, 10, FromInt(5200)>> >>

C15_Witness ==
    /\ C15Example
    /\ Len(aligned_features) = 1
    /\ Len(aligned_features[1].peaks) = 2

\* The peaks of feature f that sample s contributed, as indices.
C16Contributions(f, s) ==
    {i \in 1..Len(aligned_features[f].peaks) :
        aligned_features[f].peaks[i].sampleName = data[s].fileName}

\* The features sample s contributed to, and the k-th of them.
C16Features(s) == {f \in 1..Len(aligned_features) : C16Contributions(f, s) # {}}

C16NthFeature(s, k) ==
    CHOOSE f \in C16Features(s) : Cardinality({g \in C16Features(s) : g < f}) = k - 1

\* C16: after an alignment a sample's alignedPeaks holds one entry for each
\* feature the sample contributed to and no other entry; the entry is one
\* of the sample's peaks in that feature, no other peak of the sample in
\* the feature is more intense, and it carries the feature's id.
C16_OneBestPeakPerSampleAndFeature ==
    AlignmentDone =>
       \A s \in 1..Len(data) :
          /\ Len(data[s].alignedPeaks) = Cardinality(C16Features(s))
          /\ \A k \in 1..Len(data[s].alignedPeaks) :
                LET f == C16NthFeature(s, k)
                    entry == data[s].alignedPeaks[k]
                IN  /\ entry.featureId = aligned_features[f].id
                    /\ \E i \in C16Contributions(f, s) : aligned_features[f].peaks[i] = entry
                    /\ \A j \in C16Contributions(f, s) :
                          NumGeq(entry.intensity, aligned_features[f].peaks[j].intensity)

\* A sample contributed two peaks to a feature, the later one the more
\* intense, and another sample contributed none to that feature.
C16_Witness ==
    /\ AlignmentDone
    /\ \E s, u \in 1..Len(data) : \E f \in 1..Len(aligned_features) :
          /\ Cardinality(C16Contributions(f, s)) >= 2
          /\ \E i, j \in C16Contributions(f, s) :
                /\ i < j
                /\ NumGt(aligned_features[f].peaks[j].intensity,
                         aligned_features[f].peaks[i].intensity)
          /\ C16Contributions(f, u) = {}
          /\ data[u].alignedPeaks # <<>>

\* The index of the feature of the list that holds the peak, 0 when no
\* feature holds it.
FeatureIndexOf(features, peak) ==
    LET holds == {f \in 1..Len(features) :
                     \E i \in 1..Len(features[f].peaks) :
                        PeakKey(features[f].peaks[i]) = PeakKey(peak)}
    IN  IF holds = {} THEN 0 ELSE CHOOSE f \in holds : TRUE

\* The peaks the last alignment kept, over all samples.
KeptPeaks == UNION {Range(AlignedOf(data[s])) : s \in 1..Len(data)}

\* The step aligns, with the tolerances of the alignment before it, the
\* peaks that alignment kept.
IsRealignment ==
    /\ AlignmentDone
    /\ calls' = calls + 1
    /\ request'.step = "alignment"
    /\ request'.parameters = request.parameters
    /\ \A s \in 1..Len(data) : data'[s].detectedPeaks = AlignedOf(data[s])

\* C13: aligning again the peaks an alignment kept, with the same
\* tolerances, leaves every kept peak in a feature, and two kept peaks
\* share a feature after the second run exactly when they shared one after
\* the first.
C13_RealignmentKeepsGrouping ==
    [][IsRealignment
         => /\ \A p \in KeptPeaks : FeatureIndexOf(aligned_features', p) # 0
            /\ \A p, q \in KeptPeaks :
                  (FeatureIndexOf(aligned_features, p) = FeatureIndexOf(aligned_features, q))
                    <=> (FeatureIndexOf(aligned_features', p)
                           = FeatureIndexOf(aligned_features', q))]_vars

\* The words by which a detail names the stage of a step.
C14StageName(step) ==
    CASE step = "peak_detection" -> "Peak detection failed"
      [] step = "alignment" -> "Peak alignment failed"
      [] step = "statistics" -> "Statistical analysis failed"
      [] step = "filtering" -> "Filtering failed"
      [] step = "normalization" -> "Normalization failed"
      [] OTHER -> "Identification failed"

\* C14: a request whose stage raised is answered with a server error whose
\* detail holds the name of the stage and the message of the exception.
C14_StageFailureNamesStep ==
    "fault" \in DOMAIN request =>
       /\ response.status = 500
       /\ C14StageName(request.step) \in Range(response.detail)
       /\ FaultMessage(request.fault) \in Range(response.detail)

====
